---- MODULE Spec2Model ----
(***************************************************************************)
(* Model of the store router of src/server/server.rs: the control loop     *)
(* (Server as mio Handler) that owns store_addrs and store_resolving, the  *)
(* address resolver callback, the outbound-send worker (SendRunner) with   *)
(* its connection map, and the snapshot worker hand-off; and of the gRPC    *)
(* service of src/server/grpc_service.rs: snapshot and peer-message        *)
(* ingestion streams, the unary KV handlers and the error translation.     *)
(***************************************************************************)
EXTENDS Integers, Sequences, FiniteSets, TLC

\* ---------------------------------------------------------------- bounds
\* Number of messages callers submit to the control loop in one run.
MaxMsgs == 3
\* Capacity of the control loop's notify queue (config.notify_capacity).
NotifyCapacity == 2

Stores == {1, 2}
Addrs == {"A", "B"}
Regions == {1}

NoAddr == "none"
ResolveErr == "err"

\* RaftMessage.to_peer.id of the peer of region r on store s.
PeerOf(r, s) == 10 * s + r

\* ConnData: the message handed to the server, with the fields the server reads.
\* id is the position of the message in the run (it makes two messages with
\* equal fields distinguishable in the histories).
ConnData(i, snap, r, s) ==
    [id |-> i, is_snapshot |-> snap, region_id |-> r,
     to_peer_id |-> PeerOf(r, s), to_store_id |-> s]

VARIABLES
    store_addrs,       \* Server.store_addrs: store id -> address or NoAddr
    store_resolving,   \* Server.store_resolving: set of store ids
    sendch,            \* the event loop's notify queue (Msg values), FIFO
    event_loop,        \* "init" | "running" | "shutdown" (run flag cleared) | "stopped"
    resolver_pending,  \* requests the resolver accepted, callback not yet called
    raft_msg_worker,   \* [running, tasks]: FutureWorker<SendTask>
    snap_worker,       \* [running, tasks]: Worker<SnapTask>, SendTo tasks
    grpc_server,       \* "started" | "shutdown"
    conns,             \* SendRunner.conns: set of entries [addr, id, rx_alive, stream]
    conn_count,        \* connections created so far (Conn::new calls)
    next_id,           \* number of messages callers submitted so far
    \* histories (they record calls made; no handler reads them)
    resolve_log,       \* the resolver.resolve calls made, [store_id, data]
    result_log,        \* ids of messages whose ResolveResult the loop processed
    router_calls,      \* the raft_router.report_unreachable calls made
    handed,            \* the SendTasks accepted by raft_msg_worker, in order
    snapshot_status,   \* the SnapshotStatusMsg values sent
    send_failed        \* the sends that returned Err: [id, addr, handed_before]

vars == <<store_addrs, store_resolving, sendch, event_loop, resolver_pending,
          raft_msg_worker, snap_worker, grpc_server, conns, conn_count, next_id,
          resolve_log, result_log, router_calls, handed, snapshot_status,
          send_failed>>

\* State of the gRPC service (grpc_service.rs).
VARIABLES
    token,             \* Service.token: the AtomicUsize behind the snapshot tokens
    snap_streams,      \* the inbound snapshot streams: [pc, token, chunks, ended, acks]
    snap_sched,        \* history: the snap_scheduler.schedule calls, [task, accepted]
    raft_streams,      \* the inbound peer-message streams: [pc, sent, acks]
    kv                 \* the unary call at hand, or NoCall

svc_vars == <<token, snap_streams, snap_sched, raft_streams, kv>>

\* What the server's surroundings have seen.
VARIABLES
    router_log,        \* the report_unreachable calls the router received, with their results
    wire               \* the messages that left a connection's queue for the peer

env_vars == <<router_log, wire>>

\* Nothing was reported or sent yet.
EnvInit ==
    /\ router_log = <<>>
    /\ wire = <<>>

\* Inbound streams of each kind that run side by side.
Streams == {1, 2}

NoCall == [op |-> "none"]

\* Service::new, no call made yet.
ServiceInit ==
    /\ token = 1
    /\ snap_streams = [i \in Streams |->
                         [pc |-> "idle", token |-> 0, chunks |-> <<>>,
                          ended |-> "none", acks |-> 0]]
    /\ snap_sched = <<>>
    /\ raft_streams = [i \in Streams |->
                         [pc |-> "idle", sent |-> <<>>, acks |-> 0]]
    /\ kv = NoCall

\* ------------------------------------------------------------------ Init
\* Server::new: empty maps, workers created, gRPC server started.
ServerInit ==
    /\ store_addrs = [s \in Stores |-> NoAddr]
    /\ store_resolving = {}
    /\ sendch = <<>>
    /\ event_loop = "init"
    /\ resolver_pending = {}
    /\ raft_msg_worker = [running |-> FALSE, tasks |-> <<>>]
    /\ snap_worker = [running |-> FALSE, tasks |-> <<>>]
    /\ grpc_server = "started"
    /\ conns = {}
    /\ conn_count = 0
    /\ next_id = 0
    /\ resolve_log = {}
    /\ result_log = {}
    /\ router_calls = {}
    /\ handed = <<>>
    /\ snapshot_status = {}
    /\ send_failed = {}

\* --------------------------------------------------------------- helpers
\* Server::write_data: schedule a SendTask; a Stopped error is only logged.
write_data(addr, data) ==
    IF raft_msg_worker.running
    THEN /\ raft_msg_worker' = [raft_msg_worker EXCEPT
                                  !.tasks = Append(@, [addr |-> addr, msg |-> data])]
         /\ handed' = Append(handed, [addr |-> addr, msg |-> data])
    ELSE UNCHANGED <<raft_msg_worker, handed>>

\* Server::resolve_store: one resolver.resolve call; the resolver either accepts
\* the request (its callback fires later) or returns Err, which is only logged.
resolve_store(store_id, data) ==
    /\ resolve_log' = resolve_log \cup {[store_id |-> store_id, data |-> data]}
    /\ \E accepted \in BOOLEAN :
          resolver_pending' =
              IF accepted
              THEN resolver_pending \cup {[store_id |-> store_id, data |-> data]}
              ELSE resolver_pending

\* Server::report_unreachable: one router call with the message's triple.
report_unreachable(data) ==
    router_calls' = router_calls \cup
                        {[region_id |-> data.region_id,
                          to_peer_id |-> data.to_peer_id,
                          to_store_id |-> data.to_store_id,
                          id |-> data.id]}

\* SnapshotReporter::report
report(data, status) ==
    snapshot_status' = snapshot_status \cup
                           {[region_id |-> data.region_id,
                             to_peer_id |-> data.to_peer_id,
                             status |-> status, id |-> data.id]}

\* Server::send_snapshot_sock: schedule SendTo; when the worker is stopped the
\* callback is called at once with an error.
send_snapshot_sock(sock_addr, data) ==
    IF snap_worker.running
    THEN /\ snap_worker' = [snap_worker EXCEPT
                              !.tasks = Append(@, [addr |-> sock_addr, data |-> data])]
         /\ UNCHANGED snapshot_status
    ELSE /\ report(data, "Failure")
         /\ UNCHANGED snap_worker

\* ------------------------------------------------------- control loop
\* Mutant of send_store_begin_resolve: the store is not put in store_resolving.
send_store_begin_resolve_no_insert(store_id, data) ==
    /\ store_resolving' = store_resolving
    /\ resolve_store(store_id, data)
    /\ UNCHANGED <<store_addrs, raft_msg_worker, handed, router_calls>>

\* Server::send_store, last branch: mark the store as resolving and resolve it.
send_store_begin_resolve(store_id, data) ==
    /\ store_resolving' = store_resolving \cup {store_id}
    /\ resolve_store(store_id, data)
    /\ UNCHANGED <<store_addrs, raft_msg_worker, handed, router_calls>>

\* Mutant of send_store_resolving: the message is queued behind the running
\* resolution (a second request) instead of being reported.
send_store_resolving_queue(store_id, data) ==
    /\ resolve_store(store_id, data)
    /\ UNCHANGED <<store_addrs, store_resolving, router_calls,
                   raft_msg_worker, handed>>

\* Server::send_store, branch "address is being resolved": drop and report.
send_store_resolving(store_id, data) ==
    /\ report_unreachable(data)
    /\ UNCHANGED <<store_addrs, store_resolving, resolve_log,
                   resolver_pending, raft_msg_worker, handed>>

\* Mutant of send_store: store_resolving is looked at before store_addrs.
send_store_resolving_first(store_id, data) ==
    IF data.is_snapshot
    THEN /\ resolve_store(store_id, data)
         /\ UNCHANGED <<store_addrs, store_resolving, raft_msg_worker, handed,
                        router_calls>>
    ELSE IF store_id \in store_resolving
    THEN send_store_resolving(store_id, data)
    ELSE IF store_addrs[store_id] # NoAddr
    THEN /\ write_data(store_addrs[store_id], data)
         /\ UNCHANGED <<store_addrs, store_resolving, resolve_log,
                        resolver_pending, router_calls>>
    ELSE send_store_begin_resolve(store_id, data)

\* Server::send_store
send_store(store_id, data) ==
    IF data.is_snapshot
    THEN /\ resolve_store(store_id, data)
         /\ UNCHANGED <<store_addrs, store_resolving, raft_msg_worker, handed,
                        router_calls>>
    ELSE IF store_addrs[store_id] # NoAddr
    THEN /\ write_data(store_addrs[store_id], data)
         /\ UNCHANGED <<store_addrs, store_resolving, resolve_log,
                        resolver_pending, router_calls>>
    ELSE IF store_id \in store_resolving
    THEN send_store_resolving(store_id, data)
    ELSE send_store_begin_resolve(store_id, data)

\* Mutant of clear_resolving: the store is removed for snapshot results too.
clear_resolving_always(store_id, data) == store_resolving \ {store_id}

\* Mutant of clear_resolving: the store is never removed.
clear_resolving_never(store_id, data) == store_resolving

\* Server::on_resolve_result, first statement: store_resolving after the
\* "clear resolving" step.
clear_resolving(store_id, data) ==
    IF ~data.is_snapshot
    THEN store_resolving \ {store_id}
    ELSE store_resolving

\* Mutant of cache_address: the resolved address is not stored.
cache_address_skip(store_id, sock_addr) == store_addrs

\* Server::on_resolve_result, self.store_addrs.insert(store_id, sock_addr).
cache_address(store_id, sock_addr) ==
    [store_addrs EXCEPT ![store_id] = sock_addr]

\* Server::on_resolve_result
on_resolve_result(store_id, sock_addr, data) ==
    /\ store_resolving' = clear_resolving(store_id, data)
    /\ result_log' = result_log \cup {data.id}
    /\ IF sock_addr = ResolveErr
       THEN /\ report_unreachable(data)
            /\ UNCHANGED <<store_addrs, raft_msg_worker, handed, snap_worker,
                           snapshot_status>>
       ELSE /\ store_addrs' = cache_address(store_id, sock_addr)
            /\ IF data.is_snapshot
               THEN /\ send_snapshot_sock(sock_addr, data)
                    /\ UNCHANGED <<raft_msg_worker, handed, router_calls>>
               ELSE /\ write_data(sock_addr, data)
                    /\ UNCHANGED <<snap_worker, snapshot_status, router_calls>>

\* Mutant of on_close_conn: closing a connection forgets the cached addresses.
on_close_conn_evict ==
    /\ store_addrs' = [s \in Stores |-> NoAddr]
    /\ UNCHANGED <<event_loop, store_resolving, resolver_pending, resolve_log,
                   result_log, router_calls, raft_msg_worker, handed,
                   snap_worker, snapshot_status>>

\* Handler::notify, Msg::CloseConn arm: nothing is done.
on_close_conn ==
    UNCHANGED <<event_loop, store_addrs, store_resolving, resolver_pending,
                resolve_log, result_log, router_calls, raft_msg_worker, handed,
                snap_worker, snapshot_status>>

\* Handler::notify: take the next message of the queue and dispatch on its kind.
\* The loop still drains the current batch after Quit cleared the run flag.
notify ==
    /\ event_loop \in {"running", "shutdown"}
    /\ sendch # <<>>
    /\ sendch' = Tail(sendch)
    /\ LET msg == Head(sendch) IN
       CASE msg.type = "Quit" ->
              /\ event_loop' = "shutdown"
              /\ UNCHANGED <<store_addrs, store_resolving, resolver_pending,
                             resolve_log, result_log, router_calls,
                             raft_msg_worker, handed, snap_worker,
                             snapshot_status>>
         [] msg.type = "SendStore" ->
              /\ send_store(msg.store_id, msg.data)
              /\ UNCHANGED <<event_loop, result_log, snap_worker, snapshot_status>>
         [] msg.type = "ResolveResult" ->
              /\ on_resolve_result(msg.store_id, msg.sock_addr, msg.data)
              /\ UNCHANGED <<event_loop, resolver_pending, resolve_log>>
         [] msg.type = "CloseConn" -> on_close_conn
    /\ UNCHANGED <<grpc_server, conns, conn_count, next_id, send_failed>>

\* Handler::tick, called at the end of each loop turn: once the run flag is
\* cleared it stops both workers and the gRPC server, and the loop exits.
tick ==
    /\ event_loop \in {"running", "shutdown"}
    /\ IF event_loop = "shutdown"
       THEN /\ snap_worker' = [snap_worker EXCEPT !.running = FALSE]
            /\ raft_msg_worker' = [raft_msg_worker EXCEPT !.running = FALSE]
            /\ grpc_server' = "shutdown"
            /\ event_loop' = "stopped"
       ELSE UNCHANGED <<snap_worker, raft_msg_worker, grpc_server, event_loop>>
    /\ UNCHANGED <<store_addrs, store_resolving, sendch, resolver_pending, conns,
                   conn_count, next_id, resolve_log, result_log, router_calls,
                   handed, snapshot_status, send_failed>>

\* Server::run: start the workers, then enter the event loop.
run ==
    /\ event_loop = "init"
    /\ snap_worker' = [snap_worker EXCEPT !.running = TRUE]
    /\ raft_msg_worker' = [raft_msg_worker EXCEPT !.running = TRUE]
    /\ event_loop' = "running"
    /\ UNCHANGED <<store_addrs, store_resolving, sendch, resolver_pending,
                   grpc_server, conns, conn_count, next_id, resolve_log,
                   result_log, router_calls, handed, snapshot_status, send_failed>>

\* ----------------------------------------------- senders into the loop
\* A caller's try_send on the channel got from get_sendch: it fails, changing
\* nothing, when the queue is full or the loop has exited.
CanSend == Len(sendch) < NotifyCapacity /\ event_loop # "stopped"

SendStoreMsg ==
    /\ CanSend
    /\ next_id < MaxMsgs
    /\ \E s \in Stores, snap \in BOOLEAN, r \in Regions :
          sendch' = Append(sendch, [type |-> "SendStore", store_id |-> s,
                                    data |-> ConnData(next_id + 1, snap, r, s)])
    /\ next_id' = next_id + 1
    /\ UNCHANGED <<store_addrs, store_resolving, event_loop, resolver_pending,
                   raft_msg_worker, snap_worker, grpc_server, conns, conn_count,
                   resolve_log, result_log, router_calls, handed,
                   snapshot_status, send_failed>>

SendControlMsg ==
    /\ CanSend
    /\ next_id < MaxMsgs
    /\ \E t \in {"Quit", "CloseConn"} :
          sendch' = Append(sendch, [type |-> t])
    /\ next_id' = next_id + 1
    /\ UNCHANGED <<store_addrs, store_resolving, event_loop, resolver_pending,
                   raft_msg_worker, snap_worker, grpc_server, conns, conn_count,
                   resolve_log, result_log, router_calls, handed,
                   snapshot_status, send_failed>>

\* The callback built by resolve_store, called by the resolver with an address
\* or an error: it sends ResolveResult to the loop; a failed send is only logged.
resolve_callback ==
    \E req \in resolver_pending, r \in Addrs \cup {ResolveErr} :
       /\ resolver_pending' = resolver_pending \ {req}
       /\ IF CanSend
          THEN sendch' = Append(sendch, [type |-> "ResolveResult",
                                         store_id |-> req.store_id,
                                         sock_addr |-> r, data |-> req.data])
          ELSE UNCHANGED sendch
       /\ UNCHANGED <<store_addrs, store_resolving, event_loop, raft_msg_worker,
                      snap_worker, grpc_server, conns, conn_count, next_id,
                      resolve_log, result_log, router_calls, handed,
                      snapshot_status, send_failed>>

\* --------------------------------------------------- outbound-send worker
\* Conn::new: a fresh connection whose receiver end is held by the spawned
\* forwarding future.
Conn_new(addr) ==
    [addr |-> addr, id |-> conn_count + 1, rx_alive |-> TRUE, stream |-> <<>>]

\* Mutant of get_conn: a connection is created on every call.
get_conn_always_new(addr) == conns \cup {Conn_new(addr)}

\* SendRunner::get_conn: conns.entry(addr).or_insert_with(Conn::new);
\* yields the map after the call.
get_conn(addr) ==
    IF \E c \in conns : c.addr = addr
    THEN conns
    ELSE conns \cup {Conn_new(addr)}

\* SendRunner::send: push the message on the connection's unbounded queue;
\* Err when the receiver end is gone. Yields [ok, conns].
send(t) ==
    LET cs == get_conn(t.addr)
        conn == CHOOSE c \in cs : c.addr = t.addr
    IN  IF conn.rx_alive
        THEN [ok |-> TRUE,
              conns |-> (cs \ {conn}) \cup
                        {[conn EXCEPT !.stream = Append(@, t.msg.id)]}]
        ELSE [ok |-> FALSE, conns |-> cs]

\* FutureRunnable::run for SendRunner: on a send error the connection entry of
\* the address is removed. Yields the connection map after the call.
SendRunner_run(t) ==
    LET res == send(t)
    IN  IF res.ok THEN res.conns ELSE {c \in res.conns : c.addr # t.addr}

\* The outbound-send worker runs its next task.
raft_msg_worker_step ==
    /\ raft_msg_worker.tasks # <<>>
    /\ LET t == Head(raft_msg_worker.tasks)
       IN  /\ raft_msg_worker' = [raft_msg_worker EXCEPT !.tasks = Tail(@)]
           /\ conns' = SendRunner_run(t)
           /\ conn_count' = conn_count + Cardinality(get_conn(t.addr) \ conns)
           /\ send_failed' = IF send(t).ok
                             THEN send_failed
                             ELSE send_failed \cup
                                  {[id |-> t.msg.id, addr |-> t.addr,
                                    handed_before |-> Len(handed)]}
    /\ UNCHANGED <<store_addrs, store_resolving, sendch, event_loop,
                   resolver_pending, snap_worker, grpc_server, next_id,
                   resolve_log, result_log, router_calls, handed,
                   snapshot_status>>

\* The forwarding future spawned by Conn::new ends with an error (the peer
\* stream failed): the receiver end is dropped with what was still queued.
Conn_fail ==
    \E c \in conns :
       /\ c.rx_alive
       /\ conns' = (conns \ {c}) \cup
                   {[c EXCEPT !.rx_alive = FALSE, !.stream = <<>>]}
       /\ UNCHANGED <<store_addrs, store_resolving, sendch, event_loop,
                      resolver_pending, raft_msg_worker, snap_worker,
                      grpc_server, conn_count, next_id, resolve_log, result_log,
                      router_calls, handed, snapshot_status, send_failed>>

\* ------------------------------------------------------- snapshot worker
\* The callback built by send_snapshot_sock, called by the snapshot worker
\* with the outcome of the next SendTo task.
snapshot_callback ==
    /\ snap_worker.tasks # <<>>
    /\ snap_worker' = [snap_worker EXCEPT !.tasks = Tail(@)]
    /\ \E res_is_err \in BOOLEAN :
          report(Head(snap_worker.tasks).data,
                 IF res_is_err THEN "Failure" ELSE "Finish")
    /\ UNCHANGED <<store_addrs, store_resolving, sendch, event_loop,
                   resolver_pending, raft_msg_worker, grpc_server, conns,
                   conn_count, next_id, resolve_log, result_log, router_calls,
                   handed, send_failed>>

\* ------------------------------------------------------------------ Spec
\* The server with its gRPC service idle.
Init == ServerInit /\ ServiceInit /\ EnvInit

Next ==
    \/ run /\ UNCHANGED <<svc_vars, env_vars>>
    \/ notify /\ UNCHANGED <<svc_vars, env_vars>>
    \/ tick /\ UNCHANGED <<svc_vars, env_vars>>
    \/ SendStoreMsg /\ UNCHANGED <<svc_vars, env_vars>>
    \/ SendControlMsg /\ UNCHANGED <<svc_vars, env_vars>>
    \/ resolve_callback /\ UNCHANGED <<svc_vars, env_vars>>
    \/ raft_msg_worker_step /\ UNCHANGED <<svc_vars, env_vars>>
    \/ Conn_fail /\ UNCHANGED <<svc_vars, env_vars>>
    \/ snapshot_callback /\ UNCHANGED <<svc_vars, env_vars>>

Spec == Init /\ [][Next]_vars

\* ------------------------------------------------------ step predicates
\* The control loop handles the message at the head of its queue.
NotifyStep == sendch # <<>> /\ sendch' = Tail(sendch)

\* The loop handles a SendStore / a ResolveResult message.
SendStoreStep == NotifyStep /\ Head(sendch).type = "SendStore"
ResolveResultStep == NotifyStep /\ Head(sendch).type = "ResolveResult"

\* The outbound-send worker runs the task at the head of its queue.
WorkerStep ==
    /\ raft_msg_worker.tasks # <<>>
    /\ raft_msg_worker'.tasks = Tail(raft_msg_worker.tasks)

\* The router call report_unreachable makes for a message.
UnreachableOf(data) ==
    [region_id |-> data.region_id, to_peer_id |-> data.to_peer_id,
     to_store_id |-> data.to_store_id, id |-> data.id]

ResolveReq(store_id, data) == [store_id |-> store_id, data |-> data]

\* Non-snapshot resolution requests for store s made and not yet answered to
\* the loop (their ResolveResult is not processed).
Outstanding(s) ==
    {r \in resolve_log :
        r.store_id = s /\ ~r.data.is_snapshot /\ r.data.id \notin result_log}

HandedIds == {handed[i].msg.id : i \in 1..Len(handed)}
ResolvedIds == {r.data.id : r \in resolve_log}
ReportedIds == {c.id : c \in router_calls}

\* ------------------------------------------------------------------- C1
\* C1: for a store with no cached address, the first non-snapshot send makes
\* exactly one resolution request and no unreachable report; a second
\* non-snapshot send handled while that request is outstanding makes no
\* request and exactly one unreachable report, which is for the second message.
C1_ConcurrentSends ==
    [][SendStoreStep =>
        LET s == Head(sendch).store_id
            d == Head(sendch).data
        IN  (~d.is_snapshot /\ store_addrs[s] = NoAddr) =>
               IF Outstanding(s) = {}
               THEN /\ resolve_log' = resolve_log \cup {ResolveReq(s, d)}
                    /\ ResolveReq(s, d) \notin resolve_log
                    /\ router_calls' = router_calls
               ELSE /\ resolve_log' = resolve_log
                    /\ resolver_pending' = resolver_pending
                    /\ router_calls' = router_calls \cup {UnreachableOf(d)}
                    /\ UnreachableOf(d) \notin router_calls
                    /\ result_log' = result_log
                    /\ Cardinality(Outstanding(s)) = 1]_vars

\* Two non-snapshot sends to one uncached store, the first still being
\* resolved: one request, one report, the report is for the later message.
C1_Witness ==
    \E s \in Stores :
       /\ store_addrs[s] = NoAddr
       /\ Cardinality({r \in resolve_log : r.store_id = s}) = 1
       /\ Cardinality(router_calls) = 1
       /\ \E r \in Outstanding(s), c \in router_calls :
             /\ c.to_store_id = s
             /\ c.id > r.data.id

\* ------------------------------------------------------------------- C2
\* C2: with nothing cached and nothing resolving, a non-snapshot send makes
\* exactly one resolution request; processing its successful result caches the
\* address and hands the message to the outbound-send worker for that address;
\* the worker pushes a message for an address without connection on a newly
\* created connection; a later non-snapshot send to the cached store makes no
\* request and is handed over with the cached address, and the worker pushes it
\* on the existing live connection without creating one.
C2_ResolveThenReuse ==
    /\ [][SendStoreStep =>
            LET s == Head(sendch).store_id
                d == Head(sendch).data
            IN  /\ (~d.is_snapshot /\ store_addrs[s] = NoAddr
                       /\ s \notin store_resolving) =>
                      /\ resolve_log' = resolve_log \cup {ResolveReq(s, d)}
                      /\ Cardinality(resolve_log') = Cardinality(resolve_log) + 1
                /\ (~d.is_snapshot /\ store_addrs[s] # NoAddr) =>
                      /\ resolve_log' = resolve_log
                      /\ raft_msg_worker'.tasks =
                            Append(raft_msg_worker.tasks,
                                   [addr |-> store_addrs[s], msg |-> d])]_vars
    /\ [][ResolveResultStep =>
            LET m == Head(sendch)
            IN  (~m.data.is_snapshot /\ m.sock_addr # ResolveErr) =>
                   /\ store_addrs'[m.store_id] = m.sock_addr
                   /\ raft_msg_worker'.tasks =
                         Append(raft_msg_worker.tasks,
                                [addr |-> m.sock_addr, msg |-> m.data])
                   /\ resolve_log' = resolve_log]_vars
    /\ [][WorkerStep =>
            LET t == Head(raft_msg_worker.tasks)
                old == {c \in conns : c.addr = t.addr}
            IN  /\ old = {} =>
                      /\ conn_count' = conn_count + 1
                      /\ conns' = conns \cup
                            {[addr |-> t.addr, id |-> conn_count + 1,
                              rx_alive |-> TRUE, stream |-> <<t.msg.id>>]}
                /\ (\E c \in old : c.rx_alive) =>
                      /\ conn_count' = conn_count
                      /\ \A c \in old :
                            conns' = (conns \ {c}) \cup
                               {[c EXCEPT !.stream = Append(@, t.msg.id)]}]_vars

\* The scenario: message 1 was resolved, message 2 was not, both sit in this
\* order on the one connection ever created, to the address cached for the store.
C2_Witness ==
    \E s \in Stores, c \in conns :
       /\ ResolvedIds = {1}
       /\ result_log = {1}
       /\ store_addrs[s] = c.addr
       /\ conn_count = 1 /\ c.id = 1
       /\ c.stream = <<1, 2>>
       /\ Len(handed) = 2
       /\ handed[1].msg.to_store_id = s /\ handed[2].msg.to_store_id = s

\* ------------------------------------------------------------------- C3
\* C3: a non-snapshot send to a store with a cached address is handed to the
\* outbound-send worker with that address, makes no resolution request and no
\* unreachable report, also when the store is in store_resolving.
C3_CachedSend ==
    [][SendStoreStep =>
        LET s == Head(sendch).store_id
            d == Head(sendch).data
        IN  (~d.is_snapshot /\ store_addrs[s] # NoAddr) =>
               /\ handed' = Append(handed, [addr |-> store_addrs[s], msg |-> d])
               /\ raft_msg_worker'.tasks =
                     Append(raft_msg_worker.tasks,
                            [addr |-> store_addrs[s], msg |-> d])
               /\ resolve_log' = resolve_log
               /\ resolver_pending' = resolver_pending
               /\ router_calls' = router_calls
               /\ store_resolving' = store_resolving]_vars

\* A message was handed over from the cache (it was never resolved) for a
\* store that was in store_resolving when the message was handled: an earlier
\* non-snapshot request for the store is outstanding still.
C3_Witness ==
    \E s \in Stores, i \in 1..Len(handed) :
       /\ s \in store_resolving
       /\ handed[i].msg.to_store_id = s
       /\ handed[i].msg.id \notin ResolvedIds
       /\ handed[i].addr = store_addrs[s]
       /\ \E r \in Outstanding(s) : r.data.id < handed[i].msg.id

\* ------------------------------------------------------------------- C4
\* C4: a non-snapshot send to a store with no cached address that is in
\* store_resolving is reported unreachable in the same step and not queued:
\* no resolution request, nothing handed to the worker, store_addrs and
\* store_resolving unchanged; a message reported this way is never resolved
\* and never handed to the outbound-send worker later.
C4_DroppedWhileResolving ==
    /\ [][SendStoreStep =>
            LET s == Head(sendch).store_id
                d == Head(sendch).data
            IN  (~d.is_snapshot /\ store_addrs[s] = NoAddr
                    /\ s \in store_resolving) =>
                   /\ router_calls' = router_calls \cup {UnreachableOf(d)}
                   /\ UnreachableOf(d) \notin router_calls
                   /\ resolve_log' = resolve_log
                   /\ resolver_pending' = resolver_pending
                   /\ handed' = handed
                   /\ raft_msg_worker' = raft_msg_worker
                   /\ store_addrs' = store_addrs
                   /\ store_resolving' = store_resolving]_vars
    /\ [](\A c \in router_calls :
            /\ c.id \notin HandedIds
            /\ c.id \notin result_log => c.id \notin ResolvedIds)

\* A message was reported without ever being resolved, while the store's
\* earlier request is outstanding.
C4_Witness ==
    \E c \in router_calls :
       /\ c.id \notin ResolvedIds
       /\ c.to_store_id \in store_resolving
       /\ store_addrs[c.to_store_id] = NoAddr
       /\ \E r \in Outstanding(c.to_store_id) : r.data.id < c.id

\* ------------------------------------------------------------------- C5
\* C5: every snapshot send makes one fresh resolution request, whatever the
\* cache and store_resolving hold; a snapshot send and a snapshot resolution
\* result leave store_resolving unchanged; a successful snapshot result gives
\* the message to the snapshot worker; no snapshot message is ever handed to
\* the outbound-send worker.
C5_SnapshotPath ==
    /\ [][SendStoreStep =>
            LET s == Head(sendch).store_id
                d == Head(sendch).data
            IN  d.is_snapshot =>
                   /\ resolve_log' = resolve_log \cup {ResolveReq(s, d)}
                   /\ ResolveReq(s, d) \notin resolve_log
                   /\ store_resolving' = store_resolving
                   /\ handed' = handed
                   /\ raft_msg_worker' = raft_msg_worker]_vars
    /\ [][ResolveResultStep =>
            LET m == Head(sendch)
            IN  m.data.is_snapshot =>
                   /\ store_resolving' = store_resolving
                   /\ handed' = handed
                   /\ raft_msg_worker' = raft_msg_worker
                   /\ m.sock_addr # ResolveErr =>
                         snap_worker'.tasks =
                            Append(snap_worker.tasks,
                                   [addr |-> m.sock_addr, data |-> m.data])]_vars
    /\ [](\A i \in 1..Len(handed) : ~handed[i].msg.is_snapshot)

\* A snapshot message handled while its store was in store_resolving (an
\* earlier non-snapshot request is outstanding still) was resolved and reached
\* the snapshot worker; the store is in store_resolving still.
C5_Witness ==
    \E s \in Stores, r \in resolve_log :
       /\ r.store_id = s /\ r.data.is_snapshot
       /\ r.data.id \in result_log
       /\ s \in store_resolving
       /\ \E o \in Outstanding(s) : o.data.id < r.data.id
       /\ \E i \in 1..Len(snap_worker.tasks) : snap_worker.tasks[i].data = r.data

\* ------------------------------------------------------------------- C6
\* C6: handling a snapshot send-to-store and handling its resolution result
\* leave store_addrs unchanged (snapshot addresses are not cached).
C6_SnapshotNotCached ==
    [][(NotifyStep /\ Head(sendch).type \in {"SendStore", "ResolveResult"}
           /\ Head(sendch).data.is_snapshot)
          => store_addrs' = store_addrs]_vars

\* ------------------------------------------------------------------- C7
\* C7: for each store at most one non-snapshot resolution request is
\* outstanding, and one is outstanding exactly while the store is in
\* store_resolving; the store leaves store_resolving exactly in the step that
\* processes a non-snapshot resolution result for it, whatever the result.
C7_OneOutstanding ==
    /\ [](\A s \in Stores :
            /\ Cardinality(Outstanding(s)) <= 1
            /\ (Outstanding(s) # {}) <=> (s \in store_resolving))
    /\ [][\A s \in Stores :
            (s \in store_resolving /\ s \notin store_resolving')
               <=> (/\ ResolveResultStep
                    /\ Head(sendch).store_id = s
                    /\ ~Head(sendch).data.is_snapshot)]_vars

\* One non-snapshot result was a failure (its message is reported), another a
\* success (its message is handed over), and both emptied store_resolving.
C7_Witness ==
    /\ store_resolving = {}
    /\ \E c \in router_calls : c.id \in result_log
    /\ \E i \in 1..Len(handed) : handed[i].msg.id \in result_log

\* ------------------------------------------------------------------- C8
\* C8: every delivery failure of an outbound non-snapshot message is reported
\* to the router as unreachable for the message's (region, peer, store); here:
\* every message whose send on its connection failed has its router call.
C8_FailuresReported ==
    \A f \in send_failed :
       \E c \in router_calls : c.id = f.id

\* ------------------------------------------------------------------- C9
\* C9: the connection map holds at most one connection per address; a run of
\* the worker touches only the entry of its task's address; a failed send
\* removes that entry, creates nothing and does not put the message back; a
\* send to an address without entry creates exactly one connection and pushes
\* the message on it.
C9_ConnPool ==
    /\ [](\A a \in Addrs : Cardinality({c \in conns : c.addr = a}) <= 1)
    /\ [][WorkerStep =>
            LET t == Head(raft_msg_worker.tasks)
                old == {c \in conns : c.addr = t.addr}
                others(cs) == {c \in cs : c.addr # t.addr}
            IN  /\ others(conns') = others(conns)
                /\ (old # {} /\ \A c \in old : ~c.rx_alive) =>
                      /\ conns' = others(conns)
                      /\ conn_count' = conn_count
                      /\ \A i \in 1..Len(raft_msg_worker'.tasks) :
                            raft_msg_worker'.tasks[i].msg.id # t.msg.id
                /\ old = {} =>
                      /\ conn_count' = conn_count + 1
                      /\ conns' = conns \cup
                            {[addr |-> t.addr, id |-> conn_count + 1,
                              rx_alive |-> TRUE, stream |-> <<t.msg.id>>]}]_vars

\* After a failed send to an address, a message handed over later sits on a
\* connection to that address created after the first one.
C9_Witness ==
    \E f \in send_failed, c \in conns, i \in 1..Len(handed) :
       /\ c.addr = f.addr
       /\ c.id = 2 /\ conn_count = 2
       /\ i > f.handed_before
       /\ c.stream = <<handed[i].msg.id>>

\* ------------------------------------------------------------------ C10
\* C10: store_addrs changes only in the step that processes a successful
\* resolution result, by setting that store's entry to the resolved address;
\* no step removes an entry; and once a send to a cached address has failed in
\* the worker, a non-snapshot send to a store cached at that address is still
\* handed over with the cached address and makes no resolution request.
C10_CacheOnlyGrows ==
    /\ [][store_addrs' # store_addrs =>
            /\ ResolveResultStep
            /\ Head(sendch).sock_addr # ResolveErr
            /\ store_addrs' = [store_addrs EXCEPT
                                 ![Head(sendch).store_id] = Head(sendch).sock_addr]]_vars
    /\ [][\A s \in Stores :
            store_addrs[s] # NoAddr => store_addrs'[s] # NoAddr]_vars
    /\ [][SendStoreStep =>
            LET s == Head(sendch).store_id
                d == Head(sendch).data
            IN  (/\ ~d.is_snapshot
                 /\ store_addrs[s] # NoAddr
                 /\ \E f \in send_failed : f.addr = store_addrs[s]) =>
                   /\ resolve_log' = resolve_log
                   /\ handed' = Append(handed,
                                       [addr |-> store_addrs[s], msg |-> d])]_vars

\* A send to the cached address failed in the worker, and a message handled
\* after that was handed over with the same, still cached address, unresolved.
C10_Witness ==
    \E f \in send_failed, i \in 1..Len(handed) :
       /\ i > f.handed_before
       /\ handed[i].addr = f.addr
       /\ handed[i].msg.id \notin ResolvedIds
       /\ store_addrs[handed[i].msg.to_store_id] = f.addr

\* =========================================================================
\* Snapshot ingestion: Service::snapshot (grpc_service.rs)
\* =========================================================================
\* Chunks the inbound snapshot streams carry in all.
MaxChunks == 4

\* SnapshotChunk, by what the handler tests: has_message() and the length of
\* get_data().
Chunks == [has_message : BOOLEAN, data_len : 0..1]
HeaderChunk == [has_message |-> TRUE, data_len |-> 0]
DataChunk == [has_message |-> FALSE, data_len |-> 1]
EmptyChunk == [has_message |-> FALSE, data_len |-> 0]

\* SnapTask values the service schedules.
SnapTask(kind, tok) == [kind |-> kind, token |-> tok]

\* The snap_scheduler as the handler sees it: the worker's queue and the
\* history of schedule calls.
Sched == [running |-> snap_worker.running, tasks |-> snap_worker.tasks,
          log |-> snap_sched]

\* Scheduler::schedule: the task is queued, or Err(Stopped) when the worker is
\* stopped. Yields [ok, st].
schedule(st, task) ==
    IF st.running
    THEN [ok |-> TRUE,
          st |-> [st EXCEPT !.tasks = Append(@, task),
                            !.log = Append(@, [task |-> task, accepted |-> TRUE])]]
    ELSE [ok |-> FALSE,
          st |-> [st EXCEPT !.log = Append(@, [task |-> task, accepted |-> FALSE])]]

\* Variant of the token draw that reads the counter and leaves it as it is.
token_load(t) == [ret |-> t, new |-> t]

\* self.token.fetch_add(1, SeqCst): yields [ret, new].
token_fetch_add(t) == [ret |-> t, new |-> t + 1]

\* Service::snapshot, the for_each closure on one chunk. Yields [ok, st].
snapshot_for_each(tok, chunk, st) ==
    IF chunk.has_message
    THEN schedule(st, SnapTask("Register", tok))
    ELSE IF chunk.data_len # 0
    THEN schedule(st, SnapTask("Write", tok))
    ELSE [ok |-> FALSE, st |-> st]

\* Variant of the then closure that closes whatever the outcome.
snapshot_then_close(tok, res_ok, st) ==
    schedule(st, SnapTask("Close", tok))

\* Variant of the then closure that discards whatever the outcome.
snapshot_then_discard(tok, res_ok, st) ==
    schedule(st, SnapTask("Discard", tok))

\* Service::snapshot, the then closure on the outcome of the stream: Close
\* after success, Discard after an error; its result is the result of that
\* schedule call. Yields [ok, st].
snapshot_then(tok, res_ok, st) ==
    IF res_ok
    THEN schedule(st, SnapTask("Close", tok))
    ELSE schedule(st, SnapTask("Discard", tok))

\* Service::snapshot, and_then(|_| sink.success(Done::new())): the number of
\* acknowledgments after it, given the result of the then closure.
snapshot_and_then(then_ok, acks) ==
    IF then_ok THEN acks + 1 ELSE acks

\* Variant of the end of a stream's future in which the then closure uses the
\* token drawn last by any call rather than the one its own call drew.
snapshot_finish_last_token(i, res_ok, how, st) ==
    LET t == snapshot_then(token - 1, res_ok, st)
    IN  /\ snap_streams' = [snap_streams EXCEPT
                              ![i].pc = "done",
                              ![i].ended = how,
                              ![i].acks = snapshot_and_then(t.ok, @)]
        /\ snap_worker' = [snap_worker EXCEPT !.tasks = t.st.tasks]
        /\ snap_sched' = t.st.log

\* The end of a stream's future: then, and_then, and the stream is done.
snapshot_finish(i, res_ok, how, st) ==
    LET t == snapshot_then(snap_streams[i].token, res_ok, st)
    IN  /\ snap_streams' = [snap_streams EXCEPT
                              ![i].pc = "done",
                              ![i].ended = how,
                              ![i].acks = snapshot_and_then(t.ok, @)]
        /\ snap_worker' = [snap_worker EXCEPT !.tasks = t.st.tasks]
        /\ snap_sched' = t.st.log

svc_others == <<raft_streams, kv>>

RECURSIVE SumChunks(_)
SumChunks(S) ==
    IF S = {} THEN 0
    ELSE LET i == CHOOSE j \in S : TRUE
         IN  Len(snap_streams[i].chunks) + SumChunks(S \ {i})

\* Chunks delivered so far, over all streams.
ChunksSeen == SumChunks(Streams)

\* Service::snapshot is called: the token is drawn and the future is spawned.
snapshot(i) ==
    /\ snap_streams[i].pc = "idle"
    /\ token' = token_fetch_add(token).new
    /\ snap_streams' = [snap_streams EXCEPT
                          ![i].pc = "recv",
                          ![i].token = token_fetch_add(token).ret]
    /\ UNCHANGED <<snap_worker, snap_sched>>

\* The stream yields a chunk: the for_each closure runs on it, and on its
\* error the stream's future ends.
snapshot_chunk(i) ==
    /\ snap_streams[i].pc = "recv"
    /\ ChunksSeen < MaxChunks
    /\ \E chunk \in Chunks :
          LET r == snapshot_for_each(snap_streams[i].token, chunk, Sched)
              seen == Append(snap_streams[i].chunks, chunk)
          IN  IF r.ok
              THEN /\ snap_streams' = [snap_streams EXCEPT ![i].chunks = seen]
                   /\ snap_worker' = [snap_worker EXCEPT !.tasks = r.st.tasks]
                   /\ snap_sched' = r.st.log
              ELSE LET t == snapshot_then(snap_streams[i].token, FALSE, r.st)
                   IN  /\ snap_streams' = [snap_streams EXCEPT
                                             ![i].chunks = seen,
                                             ![i].pc = "done",
                                             ![i].ended = "chunk",
                                             ![i].acks = snapshot_and_then(t.ok, @)]
                       /\ snap_worker' = [snap_worker EXCEPT !.tasks = t.st.tasks]
                       /\ snap_sched' = t.st.log
    /\ UNCHANGED token

\* The stream is exhausted (ok) or fails with a transport error (err).
snapshot_stream_end(i) ==
    /\ snap_streams[i].pc = "recv"
    /\ \E how \in {"ok", "err"} : snapshot_finish(i, how = "ok", how, Sched)
    /\ UNCHANGED token

\* Handler::tick stops the snapshot worker while the service still runs.
snap_worker_stop ==
    /\ snap_worker.running
    /\ snap_worker' = [snap_worker EXCEPT !.running = FALSE]
    /\ UNCHANGED <<token, snap_streams, snap_sched>>

server_others == <<store_addrs, store_resolving, sendch, event_loop,
                   resolver_pending, raft_msg_worker, grpc_server, conns,
                   conn_count, next_id, resolve_log, result_log, router_calls,
                   handed, snapshot_status, send_failed>>

\* The server after Server::run started the workers, the service idle.
ServerRunning ==
    /\ store_addrs = [s \in Stores |-> NoAddr]
    /\ store_resolving = {}
    /\ sendch = <<>>
    /\ event_loop = "running"
    /\ resolver_pending = {}
    /\ raft_msg_worker = [running |-> TRUE, tasks |-> <<>>]
    /\ snap_worker = [running |-> TRUE, tasks |-> <<>>]
    /\ grpc_server = "started"
    /\ conns = {}
    /\ conn_count = 0
    /\ next_id = 0
    /\ resolve_log = {}
    /\ result_log = {}
    /\ router_calls = {}
    /\ handed = <<>>
    /\ snapshot_status = {}
    /\ send_failed = {}

SnapInit == ServerRunning /\ ServiceInit /\ EnvInit

SnapNext ==
    \/ \E i \in Streams : snapshot(i) /\ UNCHANGED <<server_others, svc_others, env_vars>>
    \/ \E i \in Streams : snapshot_chunk(i) /\ UNCHANGED <<server_others, svc_others, env_vars>>
    \/ \E i \in Streams : snapshot_stream_end(i) /\ UNCHANGED <<server_others, svc_others, env_vars>>
    \/ snap_worker_stop /\ UNCHANGED <<server_others, svc_others, env_vars>>

snap_vars == <<token, snap_streams, snap_sched, snap_worker>>

SnapSpec == SnapInit /\ [][SnapNext]_snap_vars

\* The schedule calls made for one token, in order, and their kinds.
TasksOf(tok) == SelectSeq(snap_sched, LAMBDA e : e.task.token = tok)
KindsOf(tok) == [n \in 1..Len(TasksOf(tok)) |-> TasksOf(tok)[n].task.kind]
AllAccepted(tok) == \A n \in 1..Len(TasksOf(tok)) : TasksOf(tok)[n].accepted
CountKind(tok, kind) ==
    Cardinality({n \in 1..Len(TasksOf(tok)) : TasksOf(tok)[n].task.kind = kind})

\* Streams whose handler has been called, and those whose future has ended.
Called == {i \in Streams : snap_streams[i].pc # "idle"}
Done == {i \in Streams : snap_streams[i].pc = "done"}

IsPrefix(a, b) == Len(a) <= Len(b) /\ \A n \in 1..Len(a) : a[n] = b[n]

\* -------------------------------------------------------------------------
\* C11: a stream of header, data, data that ends without error, with every
\* task accepted, issues Register, Write, Write for its token in that order,
\* then exactly one Close and no Discard, and is acknowledged exactly once;
\* no acknowledgment is sent while the Close has not been issued.
C11_HappyPath ==
    \A i \in Called :
        LET st == snap_streams[i]
            happy == <<HeaderChunk, DataChunk, DataChunk>>
        IN  /\ (st.pc = "done" /\ st.chunks = happy /\ st.ended = "ok"
                  /\ AllAccepted(st.token))
               => /\ KindsOf(st.token) = <<"Register", "Write", "Write", "Close">>
                  /\ st.acks = 1
            /\ (IsPrefix(st.chunks, happy) /\ st.ended \in {"none", "ok"}
                  /\ CountKind(st.token, "Close") = 0)
               => st.acks = 0

C11_Witness ==
    \E i \in Done :
        /\ snap_streams[i].chunks = <<HeaderChunk, DataChunk, DataChunk>>
        /\ snap_streams[i].ended = "ok"
        /\ AllAccepted(snap_streams[i].token)
        /\ snap_streams[i].acks = 1

\* -------------------------------------------------------------------------
\* C12: a stream whose first chunk carries non-empty data and no header is
\* discarded: a Discard and no Close is issued for its token, and no
\* acknowledgment is sent.
C12_DataBeforeHeader ==
    \A i \in Done :
        LET st == snap_streams[i]
        IN  (st.chunks # <<>> /\ st.chunks[1] = DataChunk)
            => /\ CountKind(st.token, "Discard") = 1
               /\ CountKind(st.token, "Close") = 0
               /\ st.acks = 0

\* The stream had a protocol violation: a chunk with neither header nor data,
\* or a stream error.
Violation(i) ==
    \/ snap_streams[i].ended = "err"
    \/ /\ snap_streams[i].ended = "chunk"
       /\ snap_streams[i].chunks[Len(snap_streams[i].chunks)] = EmptyChunk

\* -------------------------------------------------------------------------
\* C13: a stream in which a protocol violation occurred is never
\* acknowledged, also when its Discard was accepted.
C13_NoAckAfterViolation ==
    \A i \in Done : Violation(i) => snap_streams[i].acks = 0

Terminal == {"Close", "Discard"}

\* Chunks of a stream for which for_each made a schedule call.
Scheduled(i) ==
    Cardinality({n \in 1..Len(snap_streams[i].chunks) :
                    snap_streams[i].chunks[n] # EmptyChunk})

\* -------------------------------------------------------------------------
\* C14: every finished stream has exactly one terminal task issued for its
\* token, as the last task of that token: Close if and only if for_each
\* succeeded on every chunk and the stream ended without error, Discard
\* otherwise; an unfinished stream has none; the Register and Write tasks of
\* a token are those of the chunks before the end of the stream.
C14_OneTerminalTask ==
    \A i \in Called :
        LET st == snap_streams[i]
            kinds == KindsOf(st.token)
        IN  /\ CountKind(st.token, "Register") + CountKind(st.token, "Write")
                 = Scheduled(i)
            /\ st.pc = "recv"
               => CountKind(st.token, "Close") + CountKind(st.token, "Discard") = 0
            /\ st.pc = "done"
               => /\ CountKind(st.token, "Close") + CountKind(st.token, "Discard") = 1
                  /\ kinds[Len(kinds)] \in Terminal
                  /\ kinds[Len(kinds)] = "Close" <=> st.ended = "ok"

C14_Witness ==
    \E i \in Done :
        /\ Len(snap_streams[i].chunks) >= 2
        /\ snap_streams[i].ended = "chunk"
        /\ KindsOf(snap_streams[i].token)[1] = "Register"
        /\ CountKind(snap_streams[i].token, "Discard") = 1

\* The task kinds for_each issues for a sequence of chunks it accepts.
KindOfChunk(chunk) == IF chunk.has_message THEN "Register" ELSE "Write"
ChunkKinds(chunks) == [n \in 1..Len(chunks) |-> KindOfChunk(chunks[n])]

\* -------------------------------------------------------------------------
\* C15: with streams interleaved, whatever another stream does (a protocol
\* violation included), a stream that has no violation of its own and whose
\* tasks are all accepted ends with the tasks of its own chunks followed by
\* exactly one Close for its token, no Discard, and one acknowledgment; and
\* every task issued carries the token of a stream that was called.
C15_StreamsIsolated ==
    /\ \A n \in 1..Len(snap_sched) :
          \E i \in Called : snap_sched[n].task.token = snap_streams[i].token
    /\ \A j \in Done :
          LET st == snap_streams[j]
          IN  (st.ended = "ok" /\ AllAccepted(st.token))
              => /\ KindsOf(st.token) = ChunkKinds(st.chunks) \o <<"Close">>
                 /\ CountKind(st.token, "Discard") = 0
                 /\ st.acks = 1

C15_Witness ==
    \E i, j \in Done :
        /\ i # j
        /\ Violation(i)
        /\ snap_streams[j].ended = "ok"
        /\ AllAccepted(snap_streams[j].token)
        /\ snap_streams[j].acks = 1
        /\ \E a, b, c \in 1..Len(snap_sched) :
              /\ a < b /\ b < c
              /\ snap_sched[a].task.token = snap_streams[j].token
              /\ snap_sched[b].task = SnapTask("Discard", snap_streams[i].token)
              /\ snap_sched[c].task = SnapTask("Close", snap_streams[j].token)

\* -------------------------------------------------------------------------
\* C16: each call of the snapshot entry point draws its token by one
\* fetch-and-add on a counter that starts at 1: the first token is 1, the
\* token drawn is the counter's value, the counter grows by one, and the
\* token is greater than every token drawn before, so no two calls share one.
C16_TokensIncrease ==
    [][\A i \in Streams :
          (snap_streams[i].pc = "idle" /\ snap_streams'[i].pc # "idle")
          => /\ snap_streams'[i].token = token
             /\ token' = token + 1
             /\ Called = {} => snap_streams'[i].token = 1
             /\ \A j \in Called : snap_streams[j].token < snap_streams'[i].token
             /\ \A j \in Called : snap_streams'[j].token = snap_streams[j].token
      ]_snap_vars

C16_Witness ==
    /\ Called = Streams
    /\ \E i, j \in Streams :
          /\ snap_streams[i].token = 1
          /\ snap_streams[j].token = 2
          /\ snap_streams[i].pc = "recv"
          /\ snap_streams[j].pc = "recv"

\* =========================================================================
\* Inbound peer messages: Service::raft (grpc_service.rs)
\* =========================================================================
\* Messages one inbound peer-message stream may carry.
MaxRaftMsgs == 2

\* RaftMessage values on the inbound streams.
RaftMsgs == {"m1", "m2"}

\* Service::raft is called: the future is spawned; the sink is dropped.
raft(i) ==
    /\ raft_streams[i].pc = "idle"
    /\ raft_streams' = [raft_streams EXCEPT ![i].pc = "recv"]

\* A for_each that drops the error of ch.send_raft_msg and keeps polling.
raft_msg_keep_polling(i) ==
    /\ raft_streams[i].pc = "recv"
    /\ Len(raft_streams[i].sent) < MaxRaftMsgs
    /\ \E msg \in RaftMsgs, ok \in BOOLEAN :
          raft_streams' = [raft_streams EXCEPT
                             ![i].sent = Append(@, [msg |-> msg, ok |-> ok])]

\* The stream yields a message: for_each hands it to ch.send_raft_msg, whose
\* error ends the future.
raft_msg(i) ==
    /\ raft_streams[i].pc = "recv"
    /\ Len(raft_streams[i].sent) < MaxRaftMsgs
    /\ \E msg \in RaftMsgs, ok \in BOOLEAN :
          raft_streams' = [raft_streams EXCEPT
                             ![i].sent = Append(@, [msg |-> msg, ok |-> ok]),
                             ![i].pc = IF ok THEN "recv" ELSE "done"]

\* The stream is exhausted or fails: then(|_| future::ok(())) ends the future.
raft_stream_end(i) ==
    /\ raft_streams[i].pc = "recv"
    /\ raft_streams' = [raft_streams EXCEPT ![i].pc = "done"]

RaftInit == ServerRunning /\ ServiceInit /\ EnvInit

RaftNext ==
    \/ \E i \in Streams :
          raft(i) /\ UNCHANGED <<vars, token, snap_streams, snap_sched, kv, env_vars>>
    \/ \E i \in Streams :
          raft_msg(i) /\ UNCHANGED <<vars, token, snap_streams, snap_sched, kv, env_vars>>
    \/ \E i \in Streams :
          raft_stream_end(i) /\ UNCHANGED <<vars, token, snap_streams, snap_sched, kv, env_vars>>

RaftSpec == RaftInit /\ [][RaftNext]_raft_streams

\* -------------------------------------------------------------------------
\* C17: every inbound peer-message stream that has ended, with or without a
\* failure, has delivered exactly one acknowledgment to its sink.
C17_RaftAcknowledged ==
    \A i \in Streams :
        raft_streams[i].pc = "done" => raft_streams[i].acks = 1

\* =========================================================================
\* Unary handlers and the error translators (grpc_service.rs)
\* =========================================================================
\* Elements a batch result may carry.
MaxBatch == 2

\* Option and Result values.
None == [set |-> FALSE]
Some(x) == [set |-> TRUE, v |-> x]
Ok(x) == [ok |-> TRUE, v |-> x]
Err(e) == [ok |-> FALSE, e |-> e]
Unit == "()"

Keys == {"k1", "k2"}
Values == {"v1"}
Timestamps == {1, 2}
Ttls == {3000}

\* RegionError values the engine reports with EngineError::Request.
RegionErrors == {"not_leader", "server_is_busy"}
ServerIsBusy == "server_is_busy"

\* storage::engine::Error
EngineError ==
    [variant : {"Request"}, region_error : RegionErrors] \cup {[variant |-> "Other"]}

\* storage::mvcc::Error
MvccError ==
    [variant : {"Engine"}, inner : EngineError]
        \cup [variant : {"KeyIsLocked"}, key : Keys, primary : Keys,
              ts : Timestamps, ttl : Ttls]
        \cup [variant : {"Committed"}, commit_ts : Timestamps]
        \cup {[variant |-> "WriteConflict"], [variant |-> "TxnLockNotFound"],
              [variant |-> "Other"]}

\* storage::txn::Error
TxnError ==
    [variant : {"Engine"}, inner : EngineError]
        \cup [variant : {"Mvcc"}, inner : MvccError]
        \cup {[variant |-> "Other"]}

\* storage::Error
StorageError ==
    [variant : {"Engine"}, inner : EngineError]
        \cup [variant : {"Txn"}, inner : TxnError]
        \cup {[variant |-> "SchedTooBusy"], [variant |-> "Other"]}

\* format!("{:?}", err) and format!("{}", err).
FormatDebug(err) == [fmt |-> "{:?}", of |-> err]
FormatDisplay(err) == [fmt |-> "{}", of |-> err]

\* Variant of extract_region_error without the pattern for an engine request
\* error under Txn and Mvcc.
extract_region_error_two_patterns(res) ==
    IF res.ok THEN None
    ELSE IF res.e.variant = "Engine" /\ res.e.inner.variant = "Request"
    THEN Some(res.e.inner.region_error)
    ELSE IF /\ res.e.variant = "Txn"
            /\ res.e.inner.variant = "Engine"
            /\ res.e.inner.inner.variant = "Request"
    THEN Some(res.e.inner.inner.region_error)
    ELSE IF res.e.variant = "SchedTooBusy"
    THEN Some(ServerIsBusy)
    ELSE None

\* extract_region_error
extract_region_error(res) ==
    IF res.ok THEN None
    ELSE IF res.e.variant = "Engine" /\ res.e.inner.variant = "Request"
    THEN Some(res.e.inner.region_error)
    ELSE IF /\ res.e.variant = "Txn"
            /\ res.e.inner.variant = "Engine"
            /\ res.e.inner.inner.variant = "Request"
    THEN Some(res.e.inner.inner.region_error)
    ELSE IF /\ res.e.variant = "Txn"
            /\ res.e.inner.variant = "Mvcc"
            /\ res.e.inner.inner.variant = "Engine"
            /\ res.e.inner.inner.inner.variant = "Request"
    THEN Some(res.e.inner.inner.inner.region_error)
    ELSE IF res.e.variant = "SchedTooBusy"
    THEN Some(ServerIsBusy)
    ELSE None

\* Variant of extract_committed that never finds a commit timestamp.
extract_committed_never(err) == None

\* extract_committed
extract_committed(err) ==
    IF /\ err.variant = "Txn"
       /\ err.inner.variant = "Mvcc"
       /\ err.inner.inner.variant = "Committed"
    THEN Some(err.inner.inner.commit_ts)
    ELSE None

\* KeyError::new()
NewKeyError == [locked |-> None, retryable |-> None, abort |-> None]

\* Variant of extract_key_error that fills the lock info with key and primary
\* exchanged and takes a missing transaction lock for an abort.
extract_key_error_confused(err) ==
    IF /\ err.variant = "Txn"
       /\ err.inner.variant = "Mvcc"
       /\ err.inner.inner.variant = "KeyIsLocked"
    THEN [NewKeyError EXCEPT
            !.locked = Some([key |-> err.inner.inner.primary,
                             primary_lock |-> err.inner.inner.key,
                             lock_version |-> err.inner.inner.ts,
                             lock_ttl |-> err.inner.inner.ttl])]
    ELSE IF /\ err.variant = "Txn"
            /\ err.inner.variant = "Mvcc"
            /\ err.inner.inner.variant = "WriteConflict"
    THEN [NewKeyError EXCEPT !.retryable = Some(FormatDebug(err))]
    ELSE [NewKeyError EXCEPT !.abort = Some(FormatDebug(err))]

\* extract_key_error
extract_key_error(err) ==
    IF /\ err.variant = "Txn"
       /\ err.inner.variant = "Mvcc"
       /\ err.inner.inner.variant = "KeyIsLocked"
    THEN [NewKeyError EXCEPT
            !.locked = Some([key |-> err.inner.inner.key,
                             primary_lock |-> err.inner.inner.primary,
                             lock_version |-> err.inner.inner.ts,
                             lock_ttl |-> err.inner.inner.ttl])]
    ELSE IF /\ err.variant = "Txn"
            /\ err.inner.variant = "Mvcc"
            /\ err.inner.inner.variant \in {"WriteConflict", "TxnLockNotFound"}
    THEN [NewKeyError EXCEPT !.retryable = Some(FormatDebug(err))]
    ELSE [NewKeyError EXCEPT !.abort = Some(FormatDebug(err))]

\* KvPair::new()
NewKvPair == [key |-> None, value |-> None, error |-> None]

\* extract_kv_pairs, the body of the loop: the pair pushed for one element.
kv_pair_of(r) ==
    IF r.ok
    THEN [NewKvPair EXCEPT !.key = Some(r.v[1]), !.value = Some(r.v[2])]
    ELSE [NewKvPair EXCEPT !.error = Some(extract_key_error(r.e))]

\* Variant of the loop of extract_kv_pairs that pushes a pair for the failed
\* elements only, as extract_key_errors does.
RECURSIVE kv_pairs_loop_errors_only(_, _)
kv_pairs_loop_errors_only(res, pairs) ==
    IF res = <<>> THEN pairs
    ELSE kv_pairs_loop_errors_only(Tail(res),
            IF Head(res).ok THEN pairs ELSE Append(pairs, kv_pair_of(Head(res))))

\* extract_kv_pairs, the loop over the elements: one push per element.
RECURSIVE kv_pairs_loop(_, _)
kv_pairs_loop(res, pairs) ==
    IF res = <<>> THEN pairs
    ELSE kv_pairs_loop(Tail(res), Append(pairs, kv_pair_of(Head(res))))

\* extract_kv_pairs
extract_kv_pairs(res) ==
    IF res.ok
    THEN kv_pairs_loop(res.v, <<>>)
    ELSE <<[NewKvPair EXCEPT !.error = Some(extract_key_error(res.e))]>>

\* extract_key_errors, the loop over the elements: a push for the failed ones.
RECURSIVE key_errors_loop(_, _)
key_errors_loop(res, errs) ==
    IF res = <<>> THEN errs
    ELSE key_errors_loop(Tail(res),
            IF Head(res).ok THEN errs
            ELSE Append(errs, extract_key_error(Head(res).e)))

\* extract_key_errors
extract_key_errors(res) ==
    IF res.ok
    THEN key_errors_loop(res.v, <<>>)
    ELSE <<extract_key_error(res.e)>>

\* A response message as built by <Response>::new(): every field unset. The
\* fields are those of all the response types together.
NewResponse ==
    [region_error |-> None, error |-> None, errors |-> <<>>, pairs |-> <<>>,
     value |-> None, locks |-> <<>>, commit_version |-> None]

\* Variant of the closure of kv_get that translates the error without an
\* else after the region error.
kv_get_map_no_else(v) ==
    LET res == IF extract_region_error(v).set
               THEN [NewResponse EXCEPT !.region_error = extract_region_error(v)]
               ELSE NewResponse
    IN  IF v.ok
        THEN [res EXCEPT !.value = IF v.v.set THEN v.v ELSE Some("")]
        ELSE [res EXCEPT !.error = Some(extract_key_error(v.e))]

\* kv_get, the closure mapping the engine's result to the response.
kv_get_map(v) ==
    IF extract_region_error(v).set
    THEN [NewResponse EXCEPT !.region_error = extract_region_error(v)]
    ELSE IF v.ok
    THEN [NewResponse EXCEPT !.value = IF v.v.set THEN v.v ELSE Some("")]
    ELSE [NewResponse EXCEPT !.error = Some(extract_key_error(v.e))]

\* kv_scan and kv_batch_get, the closure.
kv_pairs_map(v) ==
    IF extract_region_error(v).set
    THEN [NewResponse EXCEPT !.region_error = extract_region_error(v)]
    ELSE [NewResponse EXCEPT !.pairs = extract_kv_pairs(v)]

\* kv_prewrite, the closure.
kv_prewrite_map(v) ==
    IF extract_region_error(v).set
    THEN [NewResponse EXCEPT !.region_error = extract_region_error(v)]
    ELSE [NewResponse EXCEPT !.errors = extract_key_errors(v)]

\* kv_commit, kv_batch_rollback, kv_resolve_lock and kv_gc, the closure.
kv_unit_map(v) ==
    IF extract_region_error(v).set
    THEN [NewResponse EXCEPT !.region_error = extract_region_error(v)]
    ELSE IF ~v.ok
    THEN [NewResponse EXCEPT !.error = Some(extract_key_error(v.e))]
    ELSE NewResponse

\* kv_cleanup, the closure.
kv_cleanup_map(v) ==
    IF extract_region_error(v).set
    THEN [NewResponse EXCEPT !.region_error = extract_region_error(v)]
    ELSE IF ~v.ok
    THEN IF extract_committed(v.e).set
         THEN [NewResponse EXCEPT !.commit_version = extract_committed(v.e)]
         ELSE [NewResponse EXCEPT !.error = Some(extract_key_error(v.e))]
    ELSE NewResponse

\* kv_scan_lock, the closure.
kv_scan_lock_map(v) ==
    IF extract_region_error(v).set
    THEN [NewResponse EXCEPT !.region_error = extract_region_error(v)]
    ELSE IF v.ok
    THEN [NewResponse EXCEPT !.locks = v.v]
    ELSE [NewResponse EXCEPT !.error = Some(extract_key_error(v.e))]

\* raw_get, the closure.
raw_get_map(v) ==
    IF extract_region_error(v).set
    THEN [NewResponse EXCEPT !.region_error = extract_region_error(v)]
    ELSE IF v.ok
    THEN IF v.v.set THEN [NewResponse EXCEPT !.value = v.v] ELSE NewResponse
    ELSE [NewResponse EXCEPT !.error = Some(FormatDisplay(v.e))]

\* raw_put and raw_delete, the closure.
raw_unit_map(v) ==
    IF extract_region_error(v).set
    THEN [NewResponse EXCEPT !.region_error = extract_region_error(v)]
    ELSE IF ~v.ok
    THEN [NewResponse EXCEPT !.error = Some(FormatDisplay(v.e))]
    ELSE NewResponse

\* Sequences over S of length at most n.
SeqUpTo(S, n) == UNION {[1..m -> S] : m \in 0..n}

\* The results the storage engine may deliver to the callbacks.
Failures == {Err(e) : e \in StorageError}
OptionResults == {Ok(None)} \cup {Ok(Some(x)) : x \in Values} \cup Failures
UnitResults == {Ok(Unit)} \cup Failures
PairResults == {Ok(<<k, x>>) : k \in Keys, x \in Values} \cup Failures
BatchPairResults == {Ok(b) : b \in SeqUpTo(PairResults, MaxBatch)} \cup Failures
BatchUnitResults == {Ok(b) : b \in SeqUpTo(UnitResults, MaxBatch)} \cup Failures
LockInfos == [key : {"k1"}, primary_lock : {"k2"}, lock_version : {1}, lock_ttl : {2}]
LockResults == {Ok(b) : b \in SeqUpTo(LockInfos, 1)} \cup Failures

\* The responses the end point may deliver to the coprocessor's callback.
Responses == {"r1", "r2"}

StorageOps ==
    {"kv_get", "kv_scan", "kv_prewrite", "kv_commit", "kv_cleanup",
     "kv_batch_get", "kv_batch_rollback", "kv_scan_lock", "kv_resolve_lock",
     "kv_gc", "raw_get", "raw_put", "raw_delete"}

\* The values the engine (or the end point) may deliver to the callback of a
\* call.
ResultsOf(op) ==
    CASE op \in {"kv_get", "raw_get"} -> OptionResults
      [] op \in {"kv_scan", "kv_batch_get"} -> BatchPairResults
      [] op = "kv_prewrite" -> BatchUnitResults
      [] op = "kv_scan_lock" -> LockResults
      [] op = "coprocessor" -> Responses
      [] OTHER -> UnitResults

\* The closure each handler maps over the delivered value; coprocessor has
\* none and passes the value on.
MapOf(op, v) ==
    CASE op = "kv_get" -> kv_get_map(v)
      [] op \in {"kv_scan", "kv_batch_get"} -> kv_pairs_map(v)
      [] op = "kv_prewrite" -> kv_prewrite_map(v)
      [] op \in {"kv_commit", "kv_batch_rollback", "kv_resolve_lock", "kv_gc"}
            -> kv_unit_map(v)
      [] op = "kv_cleanup" -> kv_cleanup_map(v)
      [] op = "kv_scan_lock" -> kv_scan_lock_map(v)
      [] op = "raw_get" -> raw_get_map(v)
      [] op \in {"raw_put", "raw_delete"} -> raw_unit_map(v)
      [] op = "coprocessor" -> v

\* A handler is called: the spawned closure makes the callback and issues the
\* one call to the engine (or the end point scheduler), unwrapping its
\* result: a rejected call panics there.
Call(op) ==
    /\ kv.op = NoCall.op
    /\ \E accepted \in BOOLEAN :
          kv' = [op |-> op,
                 pc |-> IF accepted THEN "pending" ELSE "panicked",
                 issued |-> 1, delivered |-> 0, written |-> 0]

kv_get == Call("kv_get")
kv_scan == Call("kv_scan")
kv_prewrite == Call("kv_prewrite")
kv_commit == Call("kv_commit")
kv_cleanup == Call("kv_cleanup")
kv_batch_get == Call("kv_batch_get")
kv_batch_rollback == Call("kv_batch_rollback")
kv_scan_lock == Call("kv_scan_lock")
kv_resolve_lock == Call("kv_resolve_lock")
kv_gc == Call("kv_gc")
raw_get == Call("raw_get")
raw_put == Call("raw_put")
raw_delete == Call("raw_delete")
coprocessor == Call("coprocessor")

\* The call is pending: its callback has been neither invoked nor dropped.
Pending == kv.op # NoCall.op /\ kv.pc = "pending"

\* The value v is delivered through the callback of make_callback and the
\* handler's closure maps it.
deliver(v) ==
    kv' = [op |-> kv.op, pc |-> "mapped", issued |-> kv.issued,
           delivered |-> kv.delivered + 1, written |-> kv.written,
           v |-> v, resp |-> MapOf(kv.op, v)]

\* Variant of the callback that can be invoked again after it delivered.
callback_again ==
    /\ kv.op # NoCall.op
    /\ kv.pc \in {"pending", "mapped"}
    /\ \E v \in ResultsOf(kv.op) : deliver(v)

\* The engine invokes the callback, which is consumed by the call
\* (Box<FnBox>): tx.send(resp).
callback ==
    /\ Pending
    /\ \E v \in ResultsOf(kv.op) : deliver(v)

\* The engine drops the callback without invoking it: the future fails with
\* Canceled, which map_err logs.
callback_dropped ==
    /\ Pending
    /\ kv' = [kv EXCEPT !.pc = "canceled"]

\* and_then(|res| sink.success(res)): the response is written to the sink.
sink_success ==
    /\ kv.op # NoCall.op
    /\ kv.pc = "mapped"
    /\ kv' = [kv EXCEPT !.pc = "done", !.written = @ + 1]

KvInit == ServerRunning /\ ServiceInit /\ EnvInit

kv_others == <<vars, token, snap_streams, snap_sched, raft_streams, env_vars>>

KvNext ==
    \/ kv_get /\ UNCHANGED kv_others
    \/ kv_scan /\ UNCHANGED kv_others
    \/ kv_prewrite /\ UNCHANGED kv_others
    \/ kv_commit /\ UNCHANGED kv_others
    \/ kv_cleanup /\ UNCHANGED kv_others
    \/ kv_batch_get /\ UNCHANGED kv_others
    \/ kv_batch_rollback /\ UNCHANGED kv_others
    \/ kv_scan_lock /\ UNCHANGED kv_others
    \/ kv_resolve_lock /\ UNCHANGED kv_others
    \/ kv_gc /\ UNCHANGED kv_others
    \/ raw_get /\ UNCHANGED kv_others
    \/ raw_put /\ UNCHANGED kv_others
    \/ raw_delete /\ UNCHANGED kv_others
    \/ coprocessor /\ UNCHANGED kv_others
    \/ callback /\ UNCHANGED kv_others
    \/ callback_dropped /\ UNCHANGED kv_others
    \/ sink_success /\ UNCHANGED kv_others

KvSpec == KvInit /\ [][KvNext]_kv

\* A call to a storage handler has been answered by its closure.
Answered == kv.op \in StorageOps /\ kv.pc \in {"mapped", "done"}

\* -------------------------------------------------------------------------
\* C18: in the response of every unary handler, when the region error is set
\* no per-key error, key-error list, pair list, value, lock list or commit
\* version is set.
C18_RegionErrorAlone ==
    (Answered /\ kv.resp.region_error.set)
    => /\ ~kv.resp.error.set
       /\ kv.resp.errors = <<>>
       /\ kv.resp.pairs = <<>>
       /\ ~kv.resp.value.set
       /\ kv.resp.locks = <<>>
       /\ ~kv.resp.commit_version.set

C18_Witness ==
    /\ Answered
    /\ kv.op = "kv_get"
    /\ ~kv.v.ok
    /\ kv.resp.region_error.set

\* The storage errors that wrap an engine request error carrying re: directly,
\* under Txn, or under Mvcc under Txn.
Request(re) == [variant |-> "Request", region_error |-> re]
Wrapping(re) ==
    {[variant |-> "Engine", inner |-> Request(re)],
     [variant |-> "Txn", inner |-> [variant |-> "Engine", inner |-> Request(re)]],
     [variant |-> "Txn",
      inner |-> [variant |-> "Mvcc",
                 inner |-> [variant |-> "Engine", inner |-> Request(re)]]]}

\* -------------------------------------------------------------------------
\* C19: the region error of a response is that of the engine request error
\* the result wraps (directly, under Txn, or under Mvcc under Txn), is
\* server_is_busy for SchedTooBusy, and is unset for every other result; and
\* a response with a region error carries no key error.
C19_RegionErrorExtraction ==
    Answered
    => /\ \A re \in RegionErrors :
             (~kv.v.ok /\ kv.v.e \in Wrapping(re))
             => kv.resp.region_error = Some(re)
       /\ (~kv.v.ok /\ kv.v.e = [variant |-> "SchedTooBusy"])
          => kv.resp.region_error = Some(ServerIsBusy)
       /\ (kv.v.ok
             \/ /\ kv.v.e # [variant |-> "SchedTooBusy"]
                /\ \A re \in RegionErrors : kv.v.e \notin Wrapping(re))
          => kv.resp.region_error = None
       /\ kv.resp.region_error.set
          => ~kv.resp.error.set /\ kv.resp.errors = <<>>

C19_Witness ==
    /\ Answered
    /\ ~kv.v.ok
    /\ kv.v.e = [variant |-> "Txn",
                 inner |-> [variant |-> "Mvcc",
                            inner |-> [variant |-> "Engine",
                                       inner |-> Request("not_leader")]]]
    /\ kv.resp.region_error = Some("not_leader")

\* -------------------------------------------------------------------------
\* C20: the pair list built from N per-element results has exactly N entries
\* in the order of the results, entry n carrying the key and value of a
\* successful element and only the classified key error of a failed one; a
\* failure of the whole batch that is no region error gives exactly one entry
\* carrying the classified error.
C20_PairPerElement ==
    (Answered /\ kv.op \in {"kv_scan", "kv_batch_get"})
    => /\ kv.v.ok
          => /\ Len(kv.resp.pairs) = Len(kv.v.v)
             /\ \A n \in 1..Len(kv.v.v) :
                   IF kv.v.v[n].ok
                   THEN kv.resp.pairs[n] =
                            [key |-> Some(kv.v.v[n].v[1]),
                             value |-> Some(kv.v.v[n].v[2]),
                             error |-> None]
                   ELSE kv.resp.pairs[n] =
                            [key |-> None, value |-> None,
                             error |-> Some(extract_key_error(kv.v.v[n].e))]
       /\ (~kv.v.ok /\ ~kv.resp.region_error.set)
          => kv.resp.pairs =
                 <<[key |-> None, value |-> None,
                    error |-> Some(extract_key_error(kv.v.e))]>>

C20_Witness ==
    /\ Answered
    /\ kv.op = "kv_batch_get"
    /\ kv.v.ok
    /\ Len(kv.v.v) = 2
    /\ kv.v.v[1].ok
    /\ ~kv.v.v[2].ok
    /\ Len(kv.resp.pairs) = 2

\* -------------------------------------------------------------------------
\* C21: the error list of a prewrite response built from N per-mutation
\* results has exactly N slots, in the order of the mutations, slot n
\* reflecting the success or the classified key error of mutation n.
C21_SlotPerMutation ==
    (Answered /\ kv.op = "kv_prewrite" /\ kv.v.ok)
    => /\ Len(kv.resp.errors) = Len(kv.v.v)
       /\ \A n \in 1..Len(kv.v.v) :
             ~kv.v.v[n].ok
             => kv.resp.errors[n] = extract_key_error(kv.v.v[n].e)

\* The storage errors of the kinds extract_key_error tells apart.
IsKeyIsLocked(err) ==
    /\ err.variant = "Txn"
    /\ err.inner.variant = "Mvcc"
    /\ err.inner.inner.variant = "KeyIsLocked"
IsConflict(err) ==
    err \in {[variant |-> "Txn",
              inner |-> [variant |-> "Mvcc", inner |-> [variant |-> name]]] :
                 name \in {"WriteConflict", "TxnLockNotFound"}}

\* The handlers whose closure writes extract_key_error of a failure of the
\* whole call to the error field.
KeyErrorOps ==
    {"kv_get", "kv_commit", "kv_batch_rollback", "kv_scan_lock",
     "kv_resolve_lock", "kv_gc"}

\* -------------------------------------------------------------------------
\* C22: a key error has exactly one of locked, retryable and abort set:
\* locked exactly for key-is-locked, with that error's key, primary, lock
\* timestamp and TTL; retryable exactly for write conflict and transaction
\* lock not found; abort for every other error.
C22_KeyErrorKinds ==
    (Answered /\ kv.op \in KeyErrorOps /\ kv.resp.error.set)
    => LET err == kv.v.e
           ke == kv.resp.error.v
       IN  /\ Cardinality({f \in {"locked", "retryable", "abort"} : ke[f].set}) = 1
           /\ ke.locked.set <=> IsKeyIsLocked(err)
           /\ ke.locked.set
              => ke.locked.v = [key |-> err.inner.inner.key,
                                primary_lock |-> err.inner.inner.primary,
                                lock_version |-> err.inner.inner.ts,
                                lock_ttl |-> err.inner.inner.ttl]
           /\ ke.retryable.set <=> IsConflict(err)
           /\ ke.abort.set <=> (~IsKeyIsLocked(err) /\ ~IsConflict(err))

C22_Witness ==
    /\ Answered
    /\ kv.op = "kv_commit"
    /\ kv.resp.error.set
    /\ kv.resp.error.v.locked.set
    /\ kv.resp.error.v.locked.v =
           [key |-> "k2", primary_lock |-> "k1", lock_version |-> 2,
            lock_ttl |-> 3000]

\* The cleanup failed because the transaction was committed at ts.
Committed(ts) ==
    Err([variant |-> "Txn",
         inner |-> [variant |-> "Mvcc",
                    inner |-> [variant |-> "Committed", commit_ts |-> ts]]])

\* -------------------------------------------------------------------------
\* C23: a cleanup that fails because the transaction was committed at T is
\* answered with commit version T and neither key error nor region error;
\* every other failure that is no region error is answered with a key error
\* and no commit version; the two are never both set.
C23_CleanupCommitted ==
    (Answered /\ kv.op = "kv_cleanup")
    => /\ \A ts \in Timestamps :
             kv.v = Committed(ts)
             => /\ kv.resp.commit_version = Some(ts)
                /\ ~kv.resp.error.set
                /\ ~kv.resp.region_error.set
       /\ (/\ ~kv.v.ok
           /\ ~kv.resp.region_error.set
           /\ \A ts \in Timestamps : kv.v # Committed(ts))
          => /\ kv.resp.error.set
             /\ ~kv.resp.commit_version.set
       /\ ~(kv.resp.error.set /\ kv.resp.commit_version.set)

C23_Witness ==
    /\ Answered
    /\ kv.op = "kv_cleanup"
    /\ kv.v = Committed(2)
    /\ kv.resp.commit_version = Some(2)

\* A call has been made.
Made == kv.op # NoCall.op

\* -------------------------------------------------------------------------
\* C24: a unary request issues exactly one call; at most one value is ever
\* delivered for it and a delivered value is never replaced; the response is
\* written at most once, only once the value was delivered, and exactly once
\* when the handler has finished after the value was delivered.
C24_OneShotCompletion ==
    [][/\ kv'.op # NoCall.op
       /\ kv'.issued = 1
       /\ kv'.delivered <= 1
       /\ kv'.written <= kv'.delivered
       /\ kv'.pc = "done" => (kv'.delivered = 1 /\ kv'.written = 1)
       /\ kv'.delivered = 1 => kv'.pc \in {"mapped", "done"}
       /\ (Made /\ kv.delivered = 1)
          => (kv'.delivered = 1 /\ kv'.v = kv.v /\ kv'.resp = kv.resp)
       /\ (Made /\ kv'.written > kv.written)
          => (kv.delivered = 1 /\ kv'.written = kv.written + 1)
      ]_kv

C24_Witness ==
    /\ Made
    /\ kv.op = "kv_get"
    /\ kv.pc = "done"
    /\ kv.delivered = 1
    /\ kv.written = 1

\* -------------------------------------------------------------------------
\* C25: a call the engine (or the end point scheduler) rejects at issuance is
\* answered with a response written to the sink.
C25_RejectedCallAnswered ==
    (Made /\ kv.pc = "panicked") => kv.written = 1

\* =========================================================================
\* Shutdown, statement by statement: Handler::tick (server.rs)
\* =========================================================================
\* The statements of tick run on the loop's thread while the workers and the
\* callers of the channel run on theirs. Between two of its statements the
\* loop is at "tick_snap" (snap worker stopped) or "tick_raft" (both workers
\* stopped).
tick_unchanged == <<store_addrs, store_resolving, sendch, resolver_pending,
                    conns, conn_count, next_id, resolve_log, result_log,
                    router_calls, handed, snapshot_status, send_failed>>

\* tick while el.is_running(): nothing is done.
tick_running ==
    /\ event_loop = "running"
    /\ UNCHANGED vars

\* Variant of the first statement of tick that shuts the gRPC server down
\* along with the snapshot worker.
tick_stop_snap_worker_and_grpc ==
    /\ event_loop = "shutdown"
    /\ snap_worker' = [snap_worker EXCEPT !.running = FALSE]
    /\ grpc_server' = "shutdown"
    /\ event_loop' = "tick_snap"
    /\ UNCHANGED <<raft_msg_worker, tick_unchanged>>

\* tick, !el.is_running(): self.snap_worker.stop()
tick_stop_snap_worker ==
    /\ event_loop = "shutdown"
    /\ snap_worker' = [snap_worker EXCEPT !.running = FALSE]
    /\ event_loop' = "tick_snap"
    /\ UNCHANGED <<raft_msg_worker, grpc_server, tick_unchanged>>

\* tick: self.raft_msg_worker.stop()
tick_stop_raft_msg_worker ==
    /\ event_loop = "tick_snap"
    /\ raft_msg_worker' = [raft_msg_worker EXCEPT !.running = FALSE]
    /\ event_loop' = "tick_raft"
    /\ UNCHANGED <<snap_worker, grpc_server, tick_unchanged>>

\* tick: self.grpc_server.shutdown(), after which the loop exits.
tick_shutdown_grpc_server ==
    /\ event_loop = "tick_raft"
    /\ grpc_server' = "shutdown"
    /\ event_loop' = "stopped"
    /\ UNCHANGED <<snap_worker, raft_msg_worker, tick_unchanged>>

ShutdownNext ==
    \/ run /\ UNCHANGED <<svc_vars, env_vars>>
    \/ notify /\ UNCHANGED <<svc_vars, env_vars>>
    \/ tick_running /\ UNCHANGED <<svc_vars, env_vars>>
    \/ tick_stop_snap_worker /\ UNCHANGED <<svc_vars, env_vars>>
    \/ tick_stop_raft_msg_worker /\ UNCHANGED <<svc_vars, env_vars>>
    \/ tick_shutdown_grpc_server /\ UNCHANGED <<svc_vars, env_vars>>
    \/ SendStoreMsg /\ UNCHANGED <<svc_vars, env_vars>>
    \/ SendControlMsg /\ UNCHANGED <<svc_vars, env_vars>>
    \/ resolve_callback /\ UNCHANGED <<svc_vars, env_vars>>
    \/ raft_msg_worker_step /\ UNCHANGED <<svc_vars, env_vars>>
    \/ Conn_fail /\ UNCHANGED <<svc_vars, env_vars>>
    \/ snapshot_callback /\ UNCHANGED <<svc_vars, env_vars>>

ShutdownSpec == Init /\ [][ShutdownNext]_vars

\* The loop's run flag is set: event_loop.run was entered and no Quit handled.
LoopRunning(el) == el = "running"

\* -------------------------------------------------------------------------
\* C26: the run flag is cleared only by handling Quit; the snapshot worker,
\* the outbound-send worker and the gRPC server are stopped only with the
\* flag cleared, the send worker only with the snapshot worker stopped and
\* the gRPC server only with both workers stopped.
C26_ShutdownOrder ==
    [][/\ (LoopRunning(event_loop) /\ ~LoopRunning(event_loop'))
          => (NotifyStep /\ Head(sendch).type = "Quit")
       /\ (snap_worker.running /\ ~snap_worker'.running)
          => (~LoopRunning(event_loop) /\ raft_msg_worker.running
                /\ grpc_server = "started")
       /\ (raft_msg_worker.running /\ ~raft_msg_worker'.running)
          => (~LoopRunning(event_loop) /\ ~snap_worker.running
                /\ grpc_server = "started" /\ grpc_server' = "started")
       /\ (grpc_server = "started" /\ grpc_server' = "shutdown")
          => (~LoopRunning(event_loop) /\ ~snap_worker.running
                /\ ~raft_msg_worker.running)
      ]_vars

C26_Witness ==
    /\ event_loop = "stopped"
    /\ ~snap_worker.running
    /\ ~raft_msg_worker.running
    /\ grpc_server = "shutdown"

\* =========================================================================
\* Unreachable reports as the router receives them: Server::report_unreachable
\* =========================================================================
\* Reports made one after another.
MaxReports == 2

\* The messages reported: the same message may be reported again.
ReportData ==
    {ConnData(0, snap, r, s) : snap \in BOOLEAN, r \in Regions, s \in Stores}

\* What raft_router.report_unreachable is called with, and what it returned.
RouterCall(data, ok) ==
    [region_id |-> data.region_id, to_peer_id |-> data.to_peer_id,
     to_store_id |-> data.to_store_id, ok |-> ok]

\* Variant of Server::report_unreachable that calls the router again after a
\* failed call.
report_unreachable_retrying(data) ==
    /\ report_unreachable(data)
    /\ \E ok \in BOOLEAN :
          router_log' = IF ok
                        THEN Append(router_log, RouterCall(data, TRUE))
                        ELSE router_log \o <<RouterCall(data, FALSE),
                                             RouterCall(data, TRUE)>>

\* Server::report_unreachable with the router's side of it: the router
\* receives the call and returns Ok or Err; Err is only logged.
report_unreachable_router(data) ==
    /\ report_unreachable(data)
    /\ \E ok \in BOOLEAN : router_log' = Append(router_log, RouterCall(data, ok))

\* server.report_unreachable(data), called on the server as it stands.
report_unreachable_direct ==
    /\ Len(router_log) < MaxReports
    /\ \E data \in ReportData : report_unreachable_router(data)
    /\ UNCHANGED <<store_addrs, store_resolving, sendch, event_loop,
                   resolver_pending, raft_msg_worker, snap_worker, grpc_server,
                   conns, conn_count, next_id, resolve_log, result_log, handed,
                   snapshot_status, send_failed, wire>>

\* A server whose loop runs, with any content of the address cache and of the
\* resolving set.
ReportInit ==
    /\ store_addrs \in [Stores -> Addrs \cup {NoAddr}]
    /\ store_resolving \in SUBSET Stores
    /\ sendch = <<>>
    /\ event_loop = "running"
    /\ resolver_pending = {}
    /\ raft_msg_worker = [running |-> TRUE, tasks |-> <<>>]
    /\ snap_worker = [running |-> TRUE, tasks |-> <<>>]
    /\ grpc_server = "started"
    /\ conns = {}
    /\ conn_count = 0
    /\ next_id = 0
    /\ resolve_log = {}
    /\ result_log = {}
    /\ router_calls = {}
    /\ handed = <<>>
    /\ snapshot_status = {}
    /\ send_failed = {}
    /\ ServiceInit
    /\ EnvInit

ReportNext ==
    \/ report_unreachable_direct /\ UNCHANGED svc_vars

ReportSpec == ReportInit /\ [][ReportNext]_<<vars, env_vars>>

\* -------------------------------------------------------------------------
\* C27: each unreachable report makes exactly one call to the router, with
\* the region id, destination peer id and destination store id of the
\* message, whether the call succeeds or fails; the address cache and the
\* resolving set are left as they were.
C27_OneRouterCall ==
    [][/\ Len(router_log') = Len(router_log) + 1
       /\ \E data \in ReportData :
             /\ router_calls' = router_calls \cup {UnreachableOf(data)}
             /\ \E ok \in BOOLEAN :
                   router_log' = Append(router_log, RouterCall(data, ok))
       /\ store_addrs' = store_addrs
       /\ store_resolving' = store_resolving
      ]_<<vars, env_vars>>

C27_Witness ==
    /\ Len(router_log) = 2
    /\ ~router_log[1].ok
    /\ router_log[2] = [router_log[1] EXCEPT !.ok = TRUE]
    /\ store_resolving # {}
    /\ \E s \in Stores : store_addrs[s] # NoAddr

\* =========================================================================
\* The connection pool down to the wire: Conn::new, SendRunner (server.rs)
\* =========================================================================
pool_unchanged == <<store_addrs, store_resolving, sendch, event_loop,
                    resolver_pending, snap_worker, grpc_server, resolve_log,
                    result_log, router_calls, snapshot_status>>

\* The control loop hands a non-snapshot message for an address to the pool
\* (Server::write_data, from send_store or on_resolve_result).
write_data_call ==
    /\ next_id < MaxMsgs
    /\ \E addr \in Addrs, s \in Stores :
          write_data(addr, ConnData(next_id, FALSE, 1, s))
    /\ next_id' = next_id + 1
    /\ UNCHANGED <<pool_unchanged, conns, conn_count, send_failed, wire>>

\* What leaves a connection's queue for the peer.
Sent(c, id) == [conn |-> c.id, addr |-> c.addr, msg |-> id]

\* Variant of the forwarding future that takes the message queued last.
Conn_forward_newest ==
    \E c \in conns :
       /\ c.rx_alive
       /\ c.stream # <<>>
       /\ conns' = (conns \ {c}) \cup
                   {[c EXCEPT !.stream = SubSeq(@, 1, Len(@) - 1)]}
       /\ wire' = Append(wire, Sent(c, c.stream[Len(c.stream)]))
       /\ UNCHANGED <<pool_unchanged, raft_msg_worker, conn_count, next_id,
                      handed, send_failed>>

\* The forwarding future spawned by Conn::new, send_all(rx): the message at
\* the head of the connection's queue goes to the peer.
Conn_forward ==
    \E c \in conns :
       /\ c.rx_alive
       /\ c.stream # <<>>
       /\ conns' = (conns \ {c}) \cup {[c EXCEPT !.stream = Tail(@)]}
       /\ wire' = Append(wire, Sent(c, Head(c.stream)))
       /\ UNCHANGED <<pool_unchanged, raft_msg_worker, conn_count, next_id,
                      handed, send_failed>>

PoolInit == ServerRunning /\ ServiceInit /\ EnvInit

PoolNext ==
    \/ write_data_call /\ UNCHANGED <<svc_vars, router_log>>
    \/ raft_msg_worker_step /\ UNCHANGED <<svc_vars, env_vars>>
    \/ Conn_fail /\ UNCHANGED <<svc_vars, env_vars>>
    \/ Conn_forward /\ UNCHANGED <<svc_vars, router_log>>

PoolSpec == PoolInit /\ [][PoolNext]_<<vars, env_vars>>

\* The place of a message in the order the loop handed the messages over.
HandedAt(id) == CHOOSE n \in 1..Len(handed) : handed[n].msg.id = id

\* -------------------------------------------------------------------------
\* C28: the messages of one connection leave its queue in the order the loop
\* handed them over, and what is still queued was handed over after all that
\* left; two messages for one address that left through different
\* connections have a failed send for that address between them.
C28_ConnFifo ==
    /\ \A i, j \in 1..Len(wire) :
          (i < j /\ wire[i].conn = wire[j].conn)
          => HandedAt(wire[i].msg) < HandedAt(wire[j].msg)
    /\ \A c \in conns :
          /\ \A i, j \in 1..Len(c.stream) :
                i < j => HandedAt(c.stream[i]) < HandedAt(c.stream[j])
          /\ \A i \in 1..Len(wire), j \in 1..Len(c.stream) :
                wire[i].conn = c.id => HandedAt(wire[i].msg) < HandedAt(c.stream[j])
    /\ \A i, j \in 1..Len(wire) :
          (/\ wire[i].addr = wire[j].addr
           /\ wire[i].conn # wire[j].conn
           /\ HandedAt(wire[i].msg) < HandedAt(wire[j].msg))
          => \E f \in send_failed :
                /\ f.addr = wire[i].addr
                /\ HandedAt(wire[i].msg) < HandedAt(f.id)
                /\ HandedAt(f.id) < HandedAt(wire[j].msg)

\* Two messages were queued together on one connection and both left it.
C28_Witness ==
    \E i, j \in 1..Len(wire) :
       /\ i < j
       /\ wire[i].conn = wire[j].conn
       /\ \E n \in 1..Len(wire) : wire[n].addr # wire[i].addr
       /\ send_failed = {}

\* The outcome reports made for a message: unreachable reports and snapshot
\* statuses.
OutcomesOf(id) ==
    {c \in router_calls : c.id = id} \cup {st \in snapshot_status : st.id = id}

\* The message is still on its way to an outcome: its resolution is pending,
\* its resolution result is queued for the loop, or its SendTo task is queued
\* for the snapshot worker.
InFlight(id) ==
    \/ \E req \in resolver_pending : req.data.id = id
    \/ \E n \in 1..Len(sendch) :
          sendch[n].type = "ResolveResult" /\ sendch[n].data.id = id
    \/ \E n \in 1..Len(snap_worker.tasks) : snap_worker.tasks[n].data.id = id

\* -------------------------------------------------------------------------
\* C29: a snapshot send the loop has handled never has more than one outcome
\* report, and has exactly one as soon as nothing of it is on its way any
\* more.
C29_SnapshotOutcome ==
    \A r \in resolve_log :
       r.data.is_snapshot
       => /\ Cardinality(OutcomesOf(r.data.id)) <= 1
          /\ ~InFlight(r.data.id) => Cardinality(OutcomesOf(r.data.id)) = 1

\* -------------------------------------------------------------------------
\* The forwards of stream i so far were all accepted by the router.
AllForwarded(i) ==
    \A n \in 1..Len(raft_streams[i].sent) : raft_streams[i].sent[n].ok

\* C30: an inbound peer-message stream forwards its messages one at a time in
\* stream order: every step that forwards for a stream appends one message to
\* that stream's forwards, happens only while the stream is being received
\* and no earlier forward of it failed, and leaves every other stream as it
\* was; so nothing is forwarded after the first failed forward or after the
\* stream ended.
C30_StreamForwarding ==
    [][\A i \in Streams :
          raft_streams'[i].sent # raft_streams[i].sent
          => /\ raft_streams[i].pc = "recv"
             /\ AllForwarded(i)
             /\ \E msg \in RaftMsgs, ok \in BOOLEAN :
                   raft_streams'[i].sent =
                       Append(raft_streams[i].sent, [msg |-> msg, ok |-> ok])
             /\ \A j \in Streams \ {i} : raft_streams'[j] = raft_streams[j]
      ]_raft_streams

\* Stream 1 stopped at a failed forward of its second message while stream 2
\* has forwarded two messages and is still being received.
C30_Witness ==
    /\ raft_streams[1].pc = "done"
    /\ Len(raft_streams[1].sent) = 2
    /\ raft_streams[1].sent[1].ok /\ ~raft_streams[1].sent[2].ok
    /\ raft_streams[2].pc = "recv"
    /\ Len(raft_streams[2].sent) = 2
    /\ AllForwarded(2)

\* =========================================================================
\* The control loop that keeps running (server.rs)
\* =========================================================================
\* The server after Server::run, the service idle.
FairInit == ServerRunning /\ ServiceInit /\ EnvInit

\* No caller sends Quit: the loop handles what callers and the resolver's
\* callbacks send it, and the snapshot worker runs its tasks.
FairNext ==
    \/ SendStoreMsg /\ UNCHANGED <<svc_vars, env_vars>>
    \/ notify /\ UNCHANGED <<svc_vars, env_vars>>
    \/ resolve_callback /\ UNCHANGED <<svc_vars, env_vars>>
    \/ snapshot_callback /\ UNCHANGED <<svc_vars, env_vars>>

\* The loop keeps handling its queue (mio calls notify for every queued
\* message) and the resolver calls the callback of every request it accepted.
FairSpec ==
    /\ FairInit
    /\ [][FairNext]_vars
    /\ WF_vars(notify)
    /\ WF_vars(resolve_callback)

\* The non-snapshot message id waits in the loop's queue.
Submitted(id) ==
    \E n \in 1..Len(sendch) :
       /\ sendch[n].type = "SendStore"
       /\ sendch[n].data.id = id
       /\ ~sendch[n].data.is_snapshot

\* How often message id was handed to the outbound-send worker, and how often
\* it was reported unreachable.
HandedCount(id) == Cardinality({n \in 1..Len(handed) : handed[n].msg.id = id})
ReportCount(id) == Cardinality({c \in router_calls : c.id = id})

\* C31: while the loop keeps handling messages and the resolver calls every
\* accepted request's callback once, every non-snapshot send-to-store message
\* is never handed over or reported more than once in all, and once submitted
\* it is eventually either handed to the outbound-send worker or reported
\* unreachable.
C31_OneFate ==
    \A id \in 1..MaxMsgs :
       /\ [](HandedCount(id) + ReportCount(id) <= 1)
       /\ Submitted(id) ~> (HandedCount(id) + ReportCount(id) = 1)

\* -------------------------------------------------------------------------
\* The non-snapshot resolution requests for store s that were lost: the
\* resolver returned Err, or its callback could not enqueue the result. The
\* request was made, no callback is pending for it, no result is queued and
\* none was processed.
LostRequests(s) ==
    {r \in resolve_log :
        /\ r.store_id = s
        /\ ~r.data.is_snapshot
        /\ ~InFlight(r.data.id)
        /\ r.data.id \notin result_log}

\* C32: once a non-snapshot resolution request for a store is lost, the store
\* stays in store_resolving for good, the request's message is never handed to
\* the outbound-send worker and never reported unreachable, and every later
\* non-snapshot send to the store is reported unreachable without a new
\* resolution request and without being handed over.
C32_LostResolution ==
    /\ [](\A s \in Stores :
            LostRequests(s) # {}
            => /\ s \in store_resolving
               /\ \A r \in LostRequests(s) :
                     HandedCount(r.data.id) = 0 /\ ReportCount(r.data.id) = 0)
    /\ [][\A s \in Stores :
            LostRequests(s) # {} => LostRequests(s) \subseteq LostRequests(s)']_vars
    /\ [][SendStoreStep =>
            LET s == Head(sendch).store_id
                d == Head(sendch).data
            IN  (~d.is_snapshot /\ LostRequests(s) # {}) =>
                   /\ router_calls' = router_calls \cup {UnreachableOf(d)}
                   /\ UnreachableOf(d) \notin router_calls
                   /\ resolve_log' = resolve_log
                   /\ handed' = handed]_vars

\* -------------------------------------------------------------------------
\* C33: in every reachable state of the control loop no store is in
\* store_resolving while store_addrs holds an address for it.
C33_ResolvingNotCached ==
    \A s \in Stores : ~(s \in store_resolving /\ store_addrs[s] # NoAddr)

====
